---- MODULE Spec2Model ----
(***************************************************************************)
(* Model of backend/main.py: the joke-generator HTTP service.              *)
(*                                                                         *)
(* The three handlers (read_root, load_model, generate_joke) are plain     *)
(* `def` functions, so the framework runs each request on a worker thread  *)
(* and requests interleave at statement granularity.  Every access to the  *)
(* module-level dict model_state is one atomic step; the statements of a   *)
(* handler that touch only its own locals are grouped into one step.       *)
(*                                                                         *)
(* Strings that the code computes with (prompt, decoded text, joke, topic) *)
(* are sequences of one-character strings; strings that are only returned  *)
(* (messages, details) are TLA+ strings.  Response fields that only echo   *)
(* the environment (model_name, device) are left out.                      *)
(***************************************************************************)
EXTENDS Integers, Sequences, FiniteSets, TLC

\* ------------------------------------------------------------------ bounds
\* Number of request slots (requests in flight at the same time).
NumReq == 2
\* Cap on the number of tokenizer/model fetch attempts in one run.
MaxFetch == 2
\* How far around each threshold (10, 50, 500) the inputs are enumerated.
MaxOver == 2

\* ------------------------------------------------------ program constants
\* The handles are opaque: absent, or the object a from_pretrained call
\* returned.
None == "None"
Tokenizer == "AutoTokenizer"
Model == "AutoModelForCausalLM"
TokenCap == 50
TruncateLen == 500
MinJokeLen == 10

PromptGeneral ==
  <<"H", "e", "r", "e", "'", "s", " ", "a", " ", "f", "u", "n", "n", "y",
    " ", "j", "o", "k", "e", ":", "\n">>
PromptAbout ==
  <<"H", "e", "r", "e", "'", "s", " ", "a", " ", "f", "u", "n", "n", "y",
    " ", "j", "o", "k", "e", " ", "a", "b", "o", "u", "t", " ">>
PromptEnd == <<":", "\n">>
Ellipsis == <<".", ".", ".">>
Fallback ==
  <<"W", "h", "y", " ", "d", "o", "n", "'", "t", " ", "s", "c", "i", "e",
    "n", "t", "i", "s", "t", "s", " ", "t", "r", "u", "s", "t", " ", "a",
    "t", "o", "m", "s", "?", " ", "B", "e", "c", "a", "u", "s", "e", " ",
    "t", "h", "e", "y", " ", "m", "a", "k", "e", " ", "u", "p", " ", "e",
    "v", "e", "r", "y", "t", "h", "i", "n", "g", "!">>
General == <<"g", "e", "n", "e", "r", "a", "l">>
NotLoadedDetail == "Model not loaded. Call /load-model first."
\* Characters removed by str.strip() (those used by the inputs below).
Whitespace == {" ", "\t", "\n", "\r", "\f"}

\* ---------------------------------------------------------- pure helpers
\* Python's min(a, b) on integers.
Min(a, b) == IF a <= b THEN a ELSE b

\* line 102-105: the prompt template.
Prompt(topic) ==
  IF topic # <<>> THEN PromptAbout \o topic \o PromptEnd ELSE PromptGeneral

\* str.find(old): the index of the leftmost occurrence, 0 when there is none.
Find(s, old) ==
  LET at == {i \in 1..(Len(s) - Len(old) + 1) :
               SubSeq(s, i, i + Len(old) - 1) = old}
  IN IF at = {} THEN 0 ELSE CHOOSE i \in at : \A j \in at : i <= j

\* str.replace(old, ""): every non-overlapping occurrence of old, scanning
\* from the left, is removed.
RECURSIVE Replace(_, _)
Replace(s, old) ==
  LET i == Find(s, old)
  IN IF i = 0 THEN s
     ELSE SubSeq(s, 1, i - 1) \o Replace(SubSeq(s, i + Len(old), Len(s)), old)

\* str.strip(): leading and trailing whitespace removed.
Strip(s) ==
  LET keep == {i \in 1..Len(s) : s[i] \notin Whitespace}
  IN IF keep = {} THEN <<>>
     ELSE LET lo == CHOOSE i \in keep : \A j \in keep : i <= j
              hi == CHOOSE i \in keep : \A j \in keep : j <= i
          IN SubSeq(s, lo, hi)

\* line 132: joke = generated_text.replace(prompt, "").strip()
Clean(generated_text, prompt) == Strip(Replace(generated_text, prompt))

\* Variant of Truncate: the marker is counted inside the 500 characters.
Truncate_short(joke) ==
  IF Len(joke) > TruncateLen
  THEN SubSeq(joke, 1, TruncateLen - Len(Ellipsis)) \o Ellipsis ELSE joke

\* line 135-136: limit length.
Truncate(joke) ==
  IF Len(joke) > TruncateLen
  THEN SubSeq(joke, 1, TruncateLen) \o Ellipsis ELSE joke

\* Variant of Default: the threshold test is <= instead of <.
Default_inclusive(joke) == IF Len(joke) <= MinJokeLen THEN Fallback ELSE joke

\* line 139-140: default for an empty or too short joke.
Default(joke) == IF Len(joke) < MinJokeLen THEN Fallback ELSE joke

\* line 143: joke if joke else <fallback>
ResponseJoke(joke) == IF joke # <<>> THEN joke ELSE Fallback

\* line 144: topic if topic else "general"
ResponseTopic(topic) == IF topic # <<>> THEN topic ELSE General

\* Variant of MaxNewTokens: max instead of min.
MaxNewTokens_max(max_length) ==
  IF max_length >= TokenCap THEN max_length ELSE TokenCap

\* line 118: max_new_tokens=min(request.max_length, 50)
MaxNewTokens(max_length) == Min(max_length, TokenCap)

\* ------------------------------------------------------------- inputs
Req == 1..NumReq
\* The slot used when one generate request is studied on its own.
GenReq == {1}

Cats == <<"c", "a", "t", "s">>
Topics == {<<>>, Cats}
\* Temperatures in tenths (0.0, 0.8); the value is only forwarded.
Temperatures == {0, 8}
Near(c) == {c - k : k \in 0..MaxOver} \cup {c + k : k \in 0..MaxOver}
MaxLengths == Near(TokenCap) \cup {-1, 0, MinJokeLen, 100}
BodyLens == {0} \cup Near(MinJokeLen) \cup Near(TruncateLen)

Letters == <<"a", "b", "c", "d", "e", "f", "g">>
Body(n) == [i \in 1..n |-> Letters[(i % 7) + 1]]
Pads == {<<>>, <<" ", "\n">>}
\* What tokenizer.decode may return for a prompt: the prompt echoed in front
\* of the new text (the usual case), no echo at all, or the prompt recurring
\* inside the new text.
TextsFor(prompt) ==
  {prompt \o pad \o Body(n) \o pad : n \in BodyLens, pad \in Pads}
    \cup {Body(n) : n \in BodyLens}
    \cup {Body(n \div 2) \o prompt \o Body(n - (n \div 2)) : n \in BodyLens}

\* Inputs of the requests of the concurrent service: the default max_length
\* and temperature, and the prompt echoed in front of a short or an
\* ordinary new text.
SvcMaxLengths == {100}
SvcTemperatures == {8}
Prompts == {Prompt(t) : t \in Topics}
DecodedTexts == [prompt \in Prompts |-> TextsFor(prompt)]
SvcTexts ==
  [prompt \in Prompts |-> {prompt \o Body(n) : n \in {0, MinJokeLen + MaxOver}}]

\* -------------------------------------------------------------- state
VARIABLES
  model_state,  \* the module-level dict: model, tokenizer, model_loaded
  pc,           \* per request slot: the next line the handler executes
  request,      \* per request slot: the route and the request body
  locals,       \* per request slot: the handler's local variables
  response,     \* per request slot: the HTTP response once returned
  fetches,      \* number of load requests that started fetching
  stores        \* number of load requests that set model_loaded

vars == <<model_state, pc, request, locals, response, fetches, stores>>

NoRequest ==
  [kind |-> "none", topic |-> <<>>, max_length |-> 0, temperature |-> 0]
NoLocals ==
  [model |-> None, tokenizer |-> None, prompt |-> <<>>,
   tokenized |-> FALSE, generated |-> FALSE, max_new_tokens |-> 0,
   generated_text |-> <<>>, cleaned |-> <<>>]
NoResponse ==
  [status |-> 0, message |-> "", detail |-> "", model_loaded |-> FALSE,
   joke |-> <<>>, topic |-> <<>>]

\* line 24-28
Unloaded == [model |-> None, tokenizer |-> None, model_loaded |-> FALSE]

Init ==
  /\ model_state = Unloaded
  /\ pc = [r \in Req |-> "idle"]
  /\ request = [r \in Req |-> NoRequest]
  /\ locals = [r \in Req |-> NoLocals]
  /\ response = [r \in Req |-> NoResponse]
  /\ fetches = 0
  /\ stores = 0

\* A handler returns or raises: the response is sent and the handler's
\* references to the handles go out of scope; what it passed to and got from
\* the library stays on record.
Finish(r, loc, resp) ==
  /\ pc' = [pc EXCEPT ![r] = "done"]
  /\ locals' = [locals EXCEPT ![r] =
                  [loc EXCEPT !.model = None, !.tokenizer = None]]
  /\ response' = [response EXCEPT ![r] = resp]

\* ---------------------------------------------------- request arrival
\* The framework dispatches a new request to a free worker.
Arrive(r, req, entry) ==
  /\ pc[r] \in {"idle", "done"}
  /\ pc' = [pc EXCEPT ![r] = entry]
  /\ request' = [request EXCEPT ![r] = req]
  /\ locals' = [locals EXCEPT ![r] = NoLocals]
  /\ response' = [response EXCEPT ![r] = NoResponse]
  /\ UNCHANGED <<model_state, fetches, stores>>

ArriveRoot(r) == Arrive(r, [NoRequest EXCEPT !.kind = "root"], "l44")

ArriveLoad(r) == Arrive(r, [NoRequest EXCEPT !.kind = "load"], "l53")

ArriveGenerate(r, maxLengths, temperatures) ==
  \E t \in Topics, m \in maxLengths, x \in temperatures :
    Arrive(r, [kind |-> "generate", topic |-> t, max_length |-> m,
               temperature |-> x], "l94")

\* ------------------------------------------------------------ GET /
read_root(r) ==
  /\ pc[r] = "l44"
  /\ Finish(r, locals[r],
            [NoResponse EXCEPT !.status = 200,
                               !.message = "Joke Generator API",
                               !.model_loaded = model_state.model_loaded])
  /\ UNCHANGED <<model_state, request, fetches, stores>>

\* ------------------------------------------------- POST /load-model
\* line 85-89: the except clause turns any exception into a 500.
LoadError(what) ==
  [NoResponse EXCEPT !.status = 500, !.detail = "Failed to load model: " \o what]

\* Variant of load_model_check: the already-loaded test is missing.
load_model_check_always(r) ==
  /\ pc[r] = "l53"
  /\ pc' = [pc EXCEPT ![r] = "l61"]
  /\ UNCHANGED <<model_state, request, locals, response, fetches, stores>>

\* line 53-54: the already-loaded test.
load_model_check(r) ==
  /\ pc[r] = "l53"
  /\ IF model_state.model_loaded
     THEN Finish(r, locals[r],
                 [NoResponse EXCEPT !.status = 200,
                                    !.message = "Model already loaded"])
     ELSE /\ pc' = [pc EXCEPT ![r] = "l61"]
          /\ UNCHANGED <<locals, response>>
  /\ UNCHANGED <<model_state, request, fetches, stores>>

\* Variant of load_model_fetch_tokenizer: the tokenizer is stored in
\* model_state as soon as it is fetched.
load_model_fetch_tokenizer_eager(r) ==
  /\ pc[r] = "l61"
  /\ fetches < MaxFetch
  /\ fetches' = fetches + 1
  /\ \/ /\ locals' = [locals EXCEPT ![r].tokenizer = Tokenizer]
        /\ model_state' = [model_state EXCEPT !.tokenizer = Tokenizer]
        /\ pc' = [pc EXCEPT ![r] = "l67"]
        /\ UNCHANGED response
     \/ /\ Finish(r, locals[r], LoadError("tokenizer"))
        /\ UNCHANGED model_state
  /\ UNCHANGED <<request, stores>>

\* line 61-65: AutoTokenizer.from_pretrained; it returns a tokenizer object
\* or raises.  The pad token set at line 64-65 is inside the opaque object.
load_model_fetch_tokenizer(r) ==
  /\ pc[r] = "l61"
  /\ fetches < MaxFetch
  /\ fetches' = fetches + 1
  /\ \/ /\ locals' = [locals EXCEPT ![r].tokenizer = Tokenizer]
        /\ pc' = [pc EXCEPT ![r] = "l67"]
        /\ UNCHANGED response
     \/ Finish(r, locals[r], LoadError("tokenizer"))
  /\ UNCHANGED <<model_state, request, stores>>

\* line 67-72: AutoModelForCausalLM.from_pretrained; it returns a model
\* object or raises.
load_model_fetch_model(r) ==
  /\ pc[r] = "l67"
  /\ \/ /\ locals' = [locals EXCEPT ![r].model = Model]
        /\ pc' = [pc EXCEPT ![r] = "l74"]
        /\ UNCHANGED response
     \/ Finish(r, locals[r], LoadError("model"))
  /\ UNCHANGED <<model_state, request, fetches, stores>>

\* Variant of load_model_store_model: the flag is raised with the first
\* store.
load_model_store_model_flag_first(r) ==
  /\ pc[r] = "l74"
  /\ model_state' = [model_state EXCEPT !.model = locals[r].model,
                                        !.model_loaded = TRUE]
  /\ pc' = [pc EXCEPT ![r] = "l75"]
  /\ UNCHANGED <<request, locals, response, fetches, stores>>

\* line 74: model_state["model"] = model
load_model_store_model(r) ==
  /\ pc[r] = "l74"
  /\ model_state' = [model_state EXCEPT !.model = locals[r].model]
  /\ pc' = [pc EXCEPT ![r] = "l75"]
  /\ UNCHANGED <<request, locals, response, fetches, stores>>

\* line 75: model_state["tokenizer"] = tokenizer
load_model_store_tokenizer(r) ==
  /\ pc[r] = "l75"
  /\ model_state' = [model_state EXCEPT !.tokenizer = locals[r].tokenizer]
  /\ pc' = [pc EXCEPT ![r] = "l76"]
  /\ UNCHANGED <<request, locals, response, fetches, stores>>

\* line 76-84: model_state["model_loaded"] = True, then the success body.
load_model_set_loaded(r) ==
  /\ pc[r] = "l76"
  /\ model_state' = [model_state EXCEPT !.model_loaded = TRUE]
  /\ stores' = stores + 1
  /\ Finish(r, locals[r],
            [NoResponse EXCEPT !.status = 200,
                               !.message = "Model loaded successfully"])
  /\ UNCHANGED <<request, fetches>>

\* --------------------------------------------- POST /generate-joke
\* line 146-148: the except clause turns any exception into a 500.
GenerateError(what) ==
  [NoResponse EXCEPT !.status = 500,
                     !.detail = "Failed to generate joke: " \o what]

\* line 146-148 as a step: the handler ends with the 500 response.
\* Variant of generate_joke_except: the handles are dropped on failure.
generate_joke_except_reset(r, loc, what) ==
  /\ Finish(r, loc, GenerateError(what))
  /\ model_state' = Unloaded

generate_joke_except(r, loc, what) ==
  /\ Finish(r, loc, GenerateError(what))
  /\ UNCHANGED model_state

\* Variant of generate_joke_check: the precondition test is missing.
generate_joke_check_skip(r) ==
  /\ pc[r] = "l94"
  /\ pc' = [pc EXCEPT ![r] = "l98"]
  /\ UNCHANGED <<model_state, request, locals, response, fetches, stores>>

\* line 94-95: the precondition.
generate_joke_check(r) ==
  /\ pc[r] = "l94"
  /\ IF ~model_state.model_loaded
     THEN Finish(r, locals[r],
                 [NoResponse EXCEPT !.status = 400,
                                    !.detail = NotLoadedDetail])
     ELSE /\ pc' = [pc EXCEPT ![r] = "l98"]
          /\ UNCHANGED <<locals, response>>
  /\ UNCHANGED <<model_state, request, fetches, stores>>

\* line 98: model = model_state["model"]
generate_joke_read_model(r) ==
  /\ pc[r] = "l98"
  /\ locals' = [locals EXCEPT ![r].model = model_state.model]
  /\ pc' = [pc EXCEPT ![r] = "l99"]
  /\ UNCHANGED <<model_state, request, response, fetches, stores>>

\* line 99: tokenizer = model_state["tokenizer"]
generate_joke_read_tokenizer(r) ==
  /\ pc[r] = "l99"
  /\ locals' = [locals EXCEPT ![r].tokenizer = model_state.tokenizer]
  /\ pc' = [pc EXCEPT ![r] = "l102"]
  /\ UNCHANGED <<model_state, request, response, fetches, stores>>

\* line 102-148: everything after the two reads works on locals only.
\* The library calls (tokenizer(...), model.generate, tokenizer.decode) may
\* raise for any input; calling an absent handle always raises.
generate_joke_run(r, texts) ==
  /\ pc[r] = "l102"
  /\ LET prompt == Prompt(request[r].topic)
         budget == MaxNewTokens(request[r].max_length)
         tok == [locals[r] EXCEPT !.prompt = prompt, !.tokenized = TRUE]
         gen == [tok EXCEPT !.generated = TRUE, !.max_new_tokens = budget]
     IN \/ generate_joke_except(r, tok, "tokenizer")
        \/ /\ locals[r].tokenizer # None
           /\ generate_joke_except(r, gen, "generate")
        \/ /\ locals[r].tokenizer # None
           /\ locals[r].model # None
           /\ \E text \in texts[prompt] :
                LET cleaned == Clean(text, prompt)
                    joke == Default(Truncate(cleaned))
                IN /\ Finish(r, [gen EXCEPT !.generated_text = text,
                                            !.cleaned = cleaned],
                             [NoResponse EXCEPT
                                !.status = 200,
                                !.joke = ResponseJoke(joke),
                                !.topic = ResponseTopic(request[r].topic)])
                   /\ UNCHANGED model_state
  /\ UNCHANGED <<request, fetches, stores>>

\* ------------------------------------------------------ specifications
\* The service: requests of all three routes, interleaved.
Next ==
  \E r \in Req :
    \/ ArriveRoot(r)
    \/ ArriveLoad(r)
    \/ ArriveGenerate(r, SvcMaxLengths, SvcTemperatures)
    \/ read_root(r)
    \/ load_model_check(r)
    \/ load_model_fetch_tokenizer(r)
    \/ load_model_fetch_model(r)
    \/ load_model_store_model(r)
    \/ load_model_store_tokenizer(r)
    \/ load_model_set_loaded(r)
    \/ generate_joke_check(r)
    \/ generate_joke_read_model(r)
    \/ generate_joke_read_tokenizer(r)
    \/ generate_joke_run(r, SvcTexts)

Spec == Init /\ [][Next]_vars

\* One generate request at a time against a loaded service, with the inputs
\* enumerated around every threshold of the post-processing.
Loaded == [model |-> Model, tokenizer |-> Tokenizer, model_loaded |-> TRUE]

GenInit ==
  /\ model_state = Loaded
  /\ pc = [r \in Req |-> "idle"]
  /\ request = [r \in Req |-> NoRequest]
  /\ locals = [r \in Req |-> NoLocals]
  /\ response = [r \in Req |-> NoResponse]
  /\ fetches = 1
  /\ stores = 1

GenNext ==
  \E r \in GenReq :
    \/ ArriveGenerate(r, MaxLengths, Temperatures)
    \/ generate_joke_check(r)
    \/ generate_joke_read_model(r)
    \/ generate_joke_read_tokenizer(r)
    \/ generate_joke_run(r, DecodedTexts)

GenSpec == GenInit /\ [][GenNext]_vars

\* ------------------------------------------------------------ claims
IsGenerate(r) == request[r].kind = "generate"
Answered(r) == IsGenerate(r) /\ pc[r] = "done" /\ response[r].status = 200
BothHandles == model_state.model # None /\ model_state.tokenizer # None
\* No load request is between its first store (line 74) and line 76.
NoLoadStoring == \A r \in Req : pc[r] \notin {"l75", "l76"}

\* C1: a generate request whose precondition test runs while no load has
\* succeeded ends at once with the 400 response and the fixed detail, has
\* called neither the tokenizer nor the model, and leaves model_state as it
\* was, whatever its topic, max_length and temperature.
C1_PreconditionFailure ==
  [][\A r \in Req :
       (pc[r] = "l94" /\ pc'[r] # "l94" /\ stores = 0)
         => /\ pc'[r] = "done"
            /\ response'[r] = [NoResponse EXCEPT
                                 !.status = 400,
                                 !.detail = "Model not loaded. Call /load-model first."]
            /\ ~locals'[r].tokenized
            /\ ~locals'[r].generated
            /\ model_state' = model_state]_vars

C1_Witness ==
  \E r \in Req : /\ IsGenerate(r)
                 /\ request[r].topic # <<>>
                 /\ response[r].status = 400
                 /\ stores = 0

\* C2: a load that succeeded has left model_loaded true, and a load request
\* that starts when model_loaded is true returns the "already loaded"
\* response, fetches nothing and leaves model, tokenizer and model_loaded
\* exactly as they were.
C2_LoadIdempotent ==
  [][\A r \in Req :
       /\ (pc[r] = "l76" /\ pc'[r] # "l76")
            => /\ model_state'.model_loaded
               /\ response'[r].message = "Model loaded successfully"
       /\ (pc[r] = "l53" /\ pc'[r] # "l53" /\ model_state.model_loaded)
            => /\ pc'[r] = "done"
               /\ response'[r] = [NoResponse EXCEPT
                                    !.status = 200,
                                    !.message = "Model already loaded"]
               /\ fetches' = fetches
               /\ model_state' = model_state]_vars

C2_Witness ==
  \E r \in Req : /\ response[r].message = "Model already loaded"
                 /\ fetches = 1
                 /\ model_state.model_loaded

\* C3: when a load request ends with the 500 response after a failed
\* tokenizer or model fetch, model_state is the unloaded state (model
\* absent, tokenizer absent, model_loaded false).
C3_FailedLoadLeavesUnloaded ==
  [][\A r \in Req :
       (pc[r] \in {"l61", "l67"} /\ pc'[r] = "done")
         => /\ response'[r].status = 500
            /\ model_state' = Unloaded]_vars

\* C4 as stated: in every reachable state model_loaded is true exactly when
\* both handles are present.
C4_LoadedIffHandles == model_state.model_loaded <=> BothHandles

\* C4 as amended: model_loaded implies that both handles are present in
\* every reachable state, and in every state where no load request is
\* between line 74 and line 76 a present handle implies model_loaded.
C4_LoadedImpliesHandles ==
  /\ model_state.model_loaded => BothHandles
  /\ NoLoadStoring
       => ((model_state.model # None \/ model_state.tokenizer # None)
             => model_state.model_loaded)

C4_Witness ==
  /\ \E r \in Req : response[r].message = "Model loaded successfully"
  /\ \E r \in Req : pc[r] = "l74"
  /\ NoLoadStoring
  /\ BothHandles
  /\ model_state.model_loaded

\* C5: at most one load request ever fetches and stores the handles.
C5_PopulatedOnce == stores <= 1

\* C6: the joke of a successful generate response has at most 503
\* characters, and when the cleaned text has more than 500 characters the
\* joke is its first 500 characters followed by "...".
C6_LengthBound ==
  \A r \in Req :
    Answered(r)
      => /\ Len(response[r].joke) <= 503
         /\ Len(locals[r].cleaned) > 500
              => response[r].joke =
                   SubSeq(locals[r].cleaned, 1, 500) \o <<".", ".", ".">>

C6_Witness ==
  \E r \in Req : /\ Answered(r)
                 /\ Len(locals[r].cleaned) > 500
                 /\ Len(response[r].joke) = 503

\* C7: the joke of a successful generate response is the fixed fallback
\* string when the cleaned text has fewer than 10 characters, and the
\* cleaned text itself when it has 10 to 500 characters.
C7_Fallback ==
  \A r \in Req :
    Answered(r)
      => /\ Len(locals[r].cleaned) < 10 => response[r].joke = Fallback
         /\ (Len(locals[r].cleaned) >= 10 /\ Len(locals[r].cleaned) <= 500)
              => response[r].joke = locals[r].cleaned

C7_Witness ==
  \E r \in Req : /\ Answered(r)
                 /\ locals[r].cleaned # <<>>
                 /\ Len(locals[r].cleaned) < 10
                 /\ response[r].joke = Fallback

\* C8: the max_new_tokens passed to model.generate is 50 when max_length is
\* at least 50, max_length when it is between 10 and 49, and never above 50.
C8_TokenBudget ==
  \A r \in Req :
    (IsGenerate(r) /\ locals[r].generated)
      => /\ request[r].max_length >= 50 => locals[r].max_new_tokens = 50
         /\ (request[r].max_length >= 10 /\ request[r].max_length <= 49)
              => locals[r].max_new_tokens = request[r].max_length
         /\ locals[r].max_new_tokens <= 50

C8_Witness ==
  \E r \in Req : /\ IsGenerate(r)
                 /\ locals[r].generated
                 /\ request[r].max_length > 50
                 /\ locals[r].max_new_tokens = 50

\* C9: no step of a generate-joke request and no step of a GET / request
\* changes model_state.
C9_OnlyLoadMutates ==
  [][\A r \in Req :
       (request[r].kind \in {"generate", "root"} /\ pc[r] \notin {"idle", "done"}
          /\ pc'[r] # pc[r])
         => model_state' = model_state]_vars

C9_Witness ==
  \E r \in Req : /\ IsGenerate(r)
                 /\ response[r].status = 500
                 /\ model_state.model_loaded

\* C10: a generate request that is past the precondition test has read a
\* present model handle and a present tokenizer handle; the flag is raised
\* only when both handles are stored; no step clears a handle or lowers the
\* flag.
C10_NoPartialRead ==
  [][/\ \A r \in Req :
          request'[r].kind = "generate"
            => /\ pc'[r] \in {"l99", "l102"} => locals'[r].model # None
               /\ pc'[r] = "l102" => locals'[r].tokenizer # None
     /\ (~model_state.model_loaded /\ model_state'.model_loaded) => BothHandles
     /\ model_state.model_loaded => model_state'.model_loaded
     /\ model_state.model # None => model_state'.model # None
     /\ model_state.tokenizer # None => model_state'.tokenizer # None]_vars

C10_Witness ==
  \E r, q \in Req : /\ IsGenerate(r)
                    /\ pc[r] = "l102"
                    /\ pc[q] \in {"l74", "l75", "l76"}

====
